---------------------------- MODULE Spec2Model ----------------------------
(***************************************************************************)
(* A model of mef_tools/io.py: the gap/interval detection                  *)
(* (find_intervals_binary_vector), the quantization functions              *)
(* (check_int32_dynamic_range, infer_conversion_factor,                    *)
(* convert_data_to_int32, check_data_integrity) and MefWriter.write_data   *)
(* with its channel metadata cache and the storage calls it issues.        *)
(*                                                                         *)
(* numpy arrays are sequences; numpy positions are 0-based, so position i  *)
(* of an array is element i+1 of the sequence.  Sample values are decimal  *)
(* fixed-point numbers: the integer X stands for X / 10^DecimalDigits.     *)
(* Arithmetic on them is exact decimal arithmetic.                         *)
(***************************************************************************)
EXTENDS Integers, Sequences, FiniteSets, TLC

VARIABLES
    \* find_intervals_binary_vector applied to one input
    iv_vec, iv_tol, iv_fs, iv_start, iv_pc, iv_res,
    \* the quantization functions applied to one buffer
    q_buf, q_pc, q_prec, q_conv, q_ok, q_alpha, q_range,
    \* MefWriter: self.channel_info, the session (storage engine) as the
    \* storage calls issued per channel, self._max_nans_written,
    \* self._mef_block_len
    channel_info, session, max_nans_written, mef_block_len,
    \* the last write_data call, the number of write_data calls that
    \* returned True, and whether one of them skipped the metadata reload
    last, nwrites, unsafe_append,
    \* write_annotations: the records the storage engine holds per scope
    \* (a channel, or the session), the batches written per scope, the outcome
    \* of the last call and the number of calls
    an_store, an_written, an_last, an_calls,
    \* MefReader: self.bi as start_time and end_time per channel, the
    \* arguments of a get_raw_data call, its position and what it passes to
    \* session.read_ts_channels_uutc
    rd_bi, rd_channels, rd_t1, rd_t2, rd_pc, rd_res,
    \* two write_data calls in progress at once: whether both are made on one
    \* MefWriter object, the session as both found it, the session, each
    \* writer's self.channel_info and self.section2_ts_dict, and each call's
    \* arguments, position and local variables
    cc_shared, cc_session0, cc_session, cc_cache, cc_sec2, cc_args, cc_pc, cc_loc,
    \* the first write_data call for a channel, on a new session: its
    \* arguments, its position and its outcome
    nc_args, nc_pc, nc_out

ivars == <<iv_vec, iv_tol, iv_fs, iv_start, iv_pc, iv_res>>
qvars == <<q_buf, q_pc, q_prec, q_conv, q_ok, q_alpha, q_range>>
wvars == <<channel_info, session, max_nans_written, mef_block_len, last, nwrites,
           unsafe_append>>
avars == <<an_store, an_written, an_last, an_calls>>
rvars == <<rd_bi, rd_channels, rd_t1, rd_t2, rd_pc, rd_res>>
cvars == <<cc_shared, cc_session0, cc_session, cc_cache, cc_sec2, cc_args, cc_pc,
           cc_loc>>
nvars == <<nc_args, nc_pc, nc_out>>
vars == <<ivars, qvars, wvars, avars, rvars, cvars, nvars>>

-----------------------------------------------------------------------------
(* Bounds of the model *)

\* longest validity vector given to find_intervals_binary_vector
MaxVecLen == 6
\* largest samples_of_nans_allowed given to find_intervals_binary_vector
MaxTol == 3
\* decimal digits kept by the fixed-point sample values
DecimalDigits == 1
\* longest buffer given to the quantization functions
MaxBufLen == 4
\* largest exponent e of a scaling factor alpha = 10^e given to
\* check_int32_dynamic_range directly
MaxAlphaExp == 6
\* write_data calls that returned True (rejected calls are not bounded)
MaxWrites == 2
\* latest start_uutc argument of a write_data call
MaxTime == 2
\* largest value given to the max_nans_written setter
MaxNans == 0

-----------------------------------------------------------------------------
(* Sequence helpers standing for the numpy / pandas primitives used *)

Range(s) == {s[i] : i \in 1..Len(s)}

\* np.diff
Diff(s) == [i \in 1..(Len(s) - 1) |-> s[i + 1] - s[i]]

\* np.where(s == x)[0]: the 0-based positions holding x, increasing
Where(s, x) ==
    LET idx == [i \in 1..Len(s) |-> i - 1]
    IN  SelectSeq(idx, LAMBDA i : s[i + 1] = x)

\* the sequences over S of length lo..hi
SeqsOf(S, lo, hi) == UNION {[1..n -> S] : n \in lo..hi}

RECURSIVE InsertByStart(_, _)
InsertByStart(r, s) ==
    IF s = <<>> THEN <<r>>
    ELSE IF r.start_samples < Head(s).start_samples THEN <<r>> \o s
    ELSE <<Head(s)>> \o InsertByStart(r, Tail(s))

\* DataFrame.sort_values(by='start_samples').reset_index(drop=True)
RECURSIVE SortByStart(_)
SortByStart(s) ==
    IF s = <<>> THEN <<>> ELSE InsertByStart(Head(s), SortByStart(Tail(s)))

-----------------------------------------------------------------------------
(* find_intervals_binary_vector *)

\* (samples / fs * 1e6 + start_uutc).astype(int64)
SamplesToUutc(samples, fs, start_uutc) ==
    (samples * 1000000) \div fs + start_uutc

\* tmp_vec: segments.iloc[:-1, 1] + samples_of_nans_allowed > segments.iloc[1:, 0]
MergeWithNext(stop_prev, start_next, samples_of_nans_allowed) ==
    stop_prev + samples_of_nans_allowed > start_next

\* t_noverlap = np.sort(list(t3 - (t3 & t1)))
NoverlapLabels(t3, t1) == SelectSeq(t3, LAMBDA i : i \notin Range(t1))

\* The whole function.  input_bin_vector is a sequence of 0/1.  The result
\* records whether the call raised (a .loc lookup of a label that is not in
\* the index of `segments` raises KeyError) and the returned rows.
find_intervals_binary_vector(input_bin_vector, fs, start_uutc, samples_of_nans_allowed) ==
    LET vector == <<0>> \o input_bin_vector \o <<0>>
        diff_vector == Diff(vector)
        t0 == Where(diff_vector, 1)
        t1 == Where(diff_vector, -1)
        \* segments: row label i (0-based) holds start t0[i+1], stop t1[i+1]
        nrows == Len(t0)
        labels == 0..(nrows - 1)
        tmp_vec == [i \in 1..(nrows - 1) |->
                       IF MergeWithNext(t1[i], t0[i + 1], samples_of_nans_allowed)
                       THEN 1 ELSE 0]
        diff_vector2 == <<0>> \o tmp_vec \o <<0>>
        bin_det == Tail(diff_vector2)
        diff == Diff(diff_vector2)
        ov_t0 == Where(diff, 1)
        ov_t1 == Where(diff, -1)
        t3 == Where(bin_det, 0)
        t_noverlap == NoverlapLabels(t3, ov_t1)
        raised == \E l \in Range(ov_t0) \cup Range(ov_t1) \cup Range(t_noverlap) :
                      l \notin labels
        overlap == [j \in 1..Len(ov_t0) |->
                       [start_samples |-> t0[ov_t0[j] + 1],
                        stop_samples  |-> t1[ov_t1[j] + 1]]]
        lonely == [j \in 1..Len(t_noverlap) |->
                       [start_samples |-> t0[t_noverlap[j] + 1],
                        stop_samples  |-> t1[t_noverlap[j] + 1]]]
        sorted == SortByStart(overlap \o lonely)
    IN  IF raised
        THEN [raised |-> TRUE, rows |-> <<>>]
        ELSE [raised |-> FALSE,
              rows |-> [j \in 1..Len(sorted) |->
                  [start_samples |-> sorted[j].start_samples,
                   stop_samples  |-> sorted[j].stop_samples,
                   start_uutc |-> SamplesToUutc(sorted[j].start_samples, fs, start_uutc),
                   stop_uutc  |-> SamplesToUutc(sorted[j].stop_samples, fs, start_uutc)]]]


-----------------------------------------------------------------------------
(* Numbers *)

\* np.nan, as a sample value
NaN == 999999999
IsNaN(x) == x = NaN

\* np.iinfo(np.int32).max and .min
INT32_MAX == 2147483647
INT32_MIN == -INT32_MAX - 1

Abs(x) == IF x < 0 THEN -x ELSE x

RECURSIVE Pow10(_)
Pow10(n) == IF n <= 0 THEN 1 ELSE 10 * Pow10(n - 1)

\* log10 of a power of ten
RECURSIVE Log10(_)
Log10(x) == IF x < 10 THEN 0 ELSE 1 + Log10(x \div 10)

RECURSIVE SumSeq(_)
SumSeq(s) == IF s = <<>> THEN 0 ELSE Head(s) + SumSeq(Tail(s))

SetMax(S) == CHOOSE x \in S : \A y \in S : y <= x
SetMin(S) == CHOOSE x \in S : \A y \in S : x <= y

\* Products of a sample and a power of ten exceed 32 bits, so they are
\* computed on naturals of two limbs <<hi, lo>> = hi * 10^9 + lo.
Limb == 1000000000
BigOf(n) == <<n \div Limb, n % Limb>>
BigAdd(a, b) ==
    LET lo == a[2] + b[2]
    IN  <<a[1] + b[1] + lo \div Limb, lo % Limb>>
BigLeq(a, b) == a[1] < b[1] \/ (a[1] = b[1] /\ a[2] <= b[2])
BigLt(a, b) == ~BigLeq(b, a)
\* a - b for a >= b
BigSub(a, b) ==
    IF a[2] >= b[2] THEN <<a[1] - b[1], a[2] - b[2]>>
    ELSE <<a[1] - b[1] - 1, a[2] + Limb - b[2]>>
BigMul10(a) == <<a[1] * 10 + a[2] \div (Limb \div 10), (a[2] % (Limb \div 10)) * 10>>
BigDiv10(a) == <<a[1] \div 10, (a[1] % 10) * (Limb \div 10) + a[2] \div 10>>
RECURSIVE BigShl(_, _)
BigShl(a, k) == IF k <= 0 THEN a ELSE BigShl(BigMul10(a), k - 1)
RECURSIVE BigShr(_, _)
BigShr(a, k) == IF k <= 0 THEN a ELSE BigShr(BigDiv10(a), k - 1)
\* |x| of a 32-bit integer
BigAbs(x) == IF x = INT32_MIN THEN BigAdd(BigOf(INT32_MAX), BigOf(1)) ELSE BigOf(Abs(x))
\* |a * 10^i - b * 10^j| for 32-bit integers a and b
BigAbsDiff(a, i, b, j) ==
    LET A == BigShl(BigAbs(a), i)
        B == BigShl(BigAbs(b), j)
    IN  IF a # 0 /\ b # 0 /\ (a < 0) = (b < 0)
        THEN IF BigLeq(B, A) THEN BigSub(A, B) ELSE BigSub(B, A)
        ELSE BigAdd(A, B)

-----------------------------------------------------------------------------
(* check_int32_dynamic_range *)

\* x * alpha < np.iinfo(np.int32).min, for the sample x and alpha a power of ten
ScaledBelowMin(x, alpha) ==
    /\ ~IsNaN(x)
    /\ x < 0
    /\ BigLt(BigShl(BigAbs(INT32_MIN), DecimalDigits), BigShl(BigAbs(x), Log10(alpha)))

\* x * alpha > np.iinfo(np.int32).max
ScaledAboveMax(x, alpha) ==
    /\ ~IsNaN(x)
    /\ x > 0
    /\ BigLt(BigShl(BigAbs(INT32_MAX), DecimalDigits), BigShl(BigAbs(x), Log10(alpha)))

check_int32_dynamic_range(x_min, x_max, alpha) ==
    IF ScaledBelowMin(x_min, alpha) /\ ScaledAboveMax(x_max, alpha)
    THEN FALSE
    ELSE TRUE

-----------------------------------------------------------------------------
(* infer_conversion_factor *)

Finite(data) == {data[i] : i \in {j \in 1..Len(data) : ~IsNaN(data[j])}}
\* np.nanmax / np.nanmin: NaN for a buffer without a finite value
NanMax(data) == IF Finite(data) = {} THEN NaN ELSE SetMax(Finite(data))
NanMin(data) == IF Finite(data) = {} THEN NaN ELSE SetMin(Finite(data))

\* the finite entries of np.abs(np.diff(data))
AbsDiffs(data) ==
    LET d == [i \in 1..(Len(data) - 1) |->
                 IF IsNaN(data[i]) \/ IsNaN(data[i + 1]) THEN NaN
                 ELSE Abs(data[i + 1] - data[i])]
    IN  SelectSeq(d, LAMBDA x : ~IsNaN(x))

\* while (mean_digg_abs < 1000) & (mean_digg_abs != 0): the mean is
\* total / (count * 10^DecimalDigits), so mean * 10^precision < 1000 is
\* scaled < limit with scaled = total * 10^precision and
\* limit = 1000 * count * 10^DecimalDigits
RECURSIVE ScaleUp(_, _, _)
ScaleUp(scaled, limit, precision) ==
    IF scaled < limit /\ scaled # 0
    THEN ScaleUp(scaled * 10, limit, precision + 1)
    ELSE precision

\* while (not check_int32_dynamic_range(...)) & (precision != 0)
ScaleDownNever(data_min, data_max, precision) == precision
RECURSIVE ScaleDown(_, _, _)
ScaleDown(data_min, data_max, precision) ==
    IF ~check_int32_dynamic_range(data_min, data_max, Pow10(precision)) /\ precision # 0
    THEN ScaleDown(data_min, data_max, precision - 1)
    ELSE precision

infer_conversion_factor(data) ==
    LET diffs == AbsDiffs(data)
        \* np.nanmean of no finite value is NaN: the first loop is skipped
        up == IF diffs = <<>> THEN 0
              ELSE ScaleUp(SumSeq(diffs), 1000 * Len(diffs) * Pow10(DecimalDigits), 0)
    IN  ScaleDown(NanMin(data), NanMax(data), up)

-----------------------------------------------------------------------------
(* convert_data_to_int32 *)

\* the precision argument left out
None == -99

\* np.round(x, decimals=precision) * 10^precision for precision below
\* DecimalDigits: x / m rounded to an integer, halves to the even neighbour
RoundHalfEven(x, m) ==
    LET fl == x \div m
        rem == x - fl * m
    IN  IF 2 * rem < m THEN fl
        ELSE IF 2 * rem > m THEN fl + 1
        ELSE IF fl % 2 = 0 THEN fl ELSE fl + 1

\* what the cast of a float outside the int32 range to int32 yields: the
\* cast is undefined in C; builds produce either the "integer indefinite"
\* value INT32_MIN or the nearest bound
CastOutcomes == {"indefinite", "saturate"}
OverflowCast(x, outcome) ==
    IF outcome = "saturate" /\ x > 0 THEN INT32_MAX ELSE INT32_MIN

\* one sample: data[np.isnan(data)] = 0; np.round; 10 ** precision * deciround;
\* the cast to int32
ConvertSample(x, precision, outcome) ==
    LET v == IF IsNaN(x) THEN 0 ELSE x
    IN  IF precision < DecimalDigits
        THEN RoundHalfEven(v, Pow10(DecimalDigits - precision))
        ELSE IF ScaledAboveMax(v, Pow10(precision)) \/ ScaledBelowMin(v, Pow10(precision))
             THEN OverflowCast(v, outcome)
             ELSE v * Pow10(precision - DecimalDigits)

\* precision < 0 (or not an int) is set to 0
NormalisedPrecision(precision) == IF precision < 0 THEN 0 ELSE precision

convert_data_to_int32(data, precision, outcome) ==
    LET p0 == IF precision = None THEN infer_conversion_factor(data) ELSE precision
        p == NormalisedPrecision(p0)
    IN  [i \in 1..Len(data) |-> ConvertSample(data[i], p, outcome)]

-----------------------------------------------------------------------------
(* check_data_integrity *)

\* np.allclose(a, b, atol) with its default rtol = 1e-5, for one sample:
\* |q / 10^p - x| <= 10^-(p-1) + 1e-5 * |x|, multiplied by
\* 10^(p + DecimalDigits)
CloseSample(q, x, precision) ==
    BigLeq(BigAbsDiff(q, DecimalDigits, x, precision),
           BigAdd(BigOf(Pow10(DecimalDigits + 1)),
                  BigShr(BigShl(BigAbs(x), precision), 5)))

check_data_integrity(original_data, converted_data, precision) ==
    \A i \in 1..Len(original_data) :
        ~IsNaN(original_data[i]) =>
            CloseSample(converted_data[i], original_data[i], precision)

-----------------------------------------------------------------------------
(* MefWriter *)

Channels == {"a"}

\* the sampling frequencies given to write_data
SamplingFreqs == {1000000, 500000}

\* self._max_nans_written = 'fs'
MaxNansFs == -1

\* get_mefblock_len; override is self.mef_block_len
get_mefblock_len(override, fs) ==
    IF override # None THEN override
    ELSE IF fs >= 5000 THEN fs
    ELSE IF fs < 0 THEN fs * 100
    ELSE fs * 10

\* ufact = np.round(0.1**precision, precision), as the fraction num / den
Ufact(precision) ==
    IF precision >= 0 THEN [num |-> 1, den |-> Pow10(precision)]
    ELSE [num |-> Pow10(-precision), den |-> 1]

\* precision = int(-1 * np.log10(ufact))
PrecisionFromUfactZero(ufact) == 0
PrecisionFromUfact(ufact) == Log10(ufact.den) - Log10(ufact.num)

\* The storage engine's state is the sequence of storage calls it received
\* for each channel.  A call is a record
\*   op: "metadata" (write_mef_ts_segment_metadata), "data"
\*       (write_mef_ts_segment_data) or "append" (append_mef_ts_segment_data)
\* with the arguments the call carries (None where it carries none).
StorageCall(op, segment, start_uutc, end_uutc, sampling_frequency, start_sample, recording_duration, units_conversion_factor, block_len, samples) ==
    [op |-> op, segment |-> segment, start_uutc |-> start_uutc, end_uutc |-> end_uutc,
     sampling_frequency |-> sampling_frequency, start_sample |-> start_sample,
     recording_duration |-> recording_duration,
     units_conversion_factor |-> units_conversion_factor,
     block_len |-> block_len, samples |-> samples]

\* the calls that carry a time range / that carry samples
TimedCalls(log) == SelectSeq(log, LAMBDA c : c.op \in {"metadata", "append"})
SampleCalls(log) == SelectSeq(log, LAMBDA c : c.op \in {"data", "append"})
MetadataCalls(log) == SelectSeq(log, LAMBDA c : c.op = "metadata")

\* session.read_ts_channel_basic_info() for one channel, and the number of
\* its segments in session.session_md
BasicInfo(log, override) ==
    LET md == MetadataCalls(log)
        timed == TimedCalls(log)
        fsamp == md[1].sampling_frequency
    IN  [fsamp |-> fsamp,
         ufact |-> md[1].units_conversion_factor,
         nsamp |-> SumSeq([i \in 1..Len(SampleCalls(log)) |->
                              Len(SampleCalls(log)[i].samples)]),
         start_time |-> SetMin({timed[i].start_uutc : i \in 1..Len(timed)}),
         end_time |-> SetMax({timed[i].end_uutc : i \in 1..Len(timed)}),
         n_segments |-> Cardinality({md[i].segment : i \in 1..Len(md)}),
         mef_block_len |-> get_mefblock_len(override, fsamp)]

\* _reload_session_info: the cache rebuilt from the storage engine
reload_session_info_derived(sess, override) ==
    [ch \in {c \in DOMAIN sess : MetadataCalls(sess[c]) # <<>>} |->
        BasicInfo(sess[ch], None)]
reload_session_info(sess, override) ==
    [ch \in {c \in DOMAIN sess : MetadataCalls(sess[c]) # <<>>} |->
        BasicInfo(sess[ch], override)]

\* end_uutc = int64(start_uutc + (len(data_write)/sampling_freq * 1e6))
InferEndUutc(start_uutc, n, sampling_freq) ==
    start_uutc + (n * 1000000) \div sampling_freq

\* if end_uutc < start_uutc
EndBeforeStart(end_uutc, start_uutc) == end_uutc < start_uutc

\* if start_uutc < self.channel_info[channel]['end_time'][0]
StartBeforeEndTimeNever(start_uutc, end_time) == FALSE
StartBeforeEndTime(start_uutc, end_time) == start_uutc < end_time

\* if sampling_freq != self.channel_info[channel]['fsamp'][0]
FsMismatch(sampling_freq, fsamp) == sampling_freq # fsamp

\* the outcome of a write_data call: what it returns ("True", "None", or
\* "raise" for an exception), the cache and the storage calls it leaves,
\* and whether it reloaded the metadata
Outcome(ret, why, ci, calls, reloaded) ==
    [ret |-> ret, why |-> why, channel_info |-> ci, calls |-> calls,
     reloaded |-> reloaded]

\* print(...); return None
RejectedDropsChannel(ci, channel, why) ==
    Outcome("None", why, [c \in DOMAIN ci \ {channel} |-> ci[c]], <<>>, FALSE)
Rejected(ci, channel, why) == Outcome("None", why, ci, <<>>, FALSE)

\* _create_segment: the two storage calls
create_segment(ci, data, channel, start_uutc, end_uutc, sampling_frequency, segment) ==
    << StorageCall("metadata", segment, start_uutc, end_uutc, sampling_frequency,
                   IF segment = 0 THEN 0 ELSE ci[channel].nsamp,
                   (end_uutc - start_uutc) \div 1000000,
                   ci[channel].ufact, None, <<>>),
       StorageCall("data", segment, None, None, None, None, None, None,
                   ci[channel].mef_block_len, data) >>

\* _append_block: the storage call
append_block(ci, data, channel, start_uutc, end_uutc, segment) ==
    << StorageCall("append", segment, start_uutc, end_uutc, None, None, None, None,
                   ci[channel].mef_block_len, data) >>

\* segment -= 1
LastSegmentNoDecrement(segment) == segment
LastSegment(segment) == segment - 1

\* input_bin_vector = ~np.isnan(data_write)
NotNaN(data) == [i \in 1..Len(data) |-> IF IsNaN(data[i]) THEN 0 ELSE 1]

\* max_nans for the discont handler
MaxNansFor(max_nans, sampling_freq) ==
    IF max_nans = MaxNansFs THEN sampling_freq ELSE max_nans

\* data_part = data_converted[row['start_samples']:row['stop_samples']]
DataPartWhole(data_converted, row) == data_converted
DataPart(data_converted, row) ==
    SubSeq(data_converted, row.start_samples + 1, row.stop_samples)

\* the loops over df_intervals.iterrows()
Dispatch(ci, rows, data_converted, channel, sampling_freq, segment, new_segment) ==
    LET part(j) == DataPart(data_converted, rows[j])
        one(j) ==
            IF new_segment /\ j = 1
            THEN create_segment(ci, part(j), channel, rows[j].start_uutc,
                                rows[j].stop_uutc, sampling_freq, segment)
            ELSE append_block(ci, part(j), channel, rows[j].start_uutc,
                              rows[j].stop_uutc,
                              IF new_segment THEN segment ELSE LastSegment(segment))
        RECURSIVE from(_)
        from(j) == IF j > Len(rows) THEN <<>> ELSE one(j) \o from(j + 1)
    IN  from(1)

\* reload_metadata = True after a new segment; if reload_metadata
ReloadAfterAsAsked(new_segment, reload_metadata) == reload_metadata
ReloadAfter(new_segment, reload_metadata) == new_segment \/ reload_metadata

\* write_data, from the interval planning on; ci already holds what the
\* channel branch left in self.channel_info
PlanAndDispatch(ci, sess, max_nans, override, data_write, data_converted, channel, start_uutc, end_uutc, sampling_freq, segment, new_segment, discont_handler, reload_metadata) ==
    LET found == find_intervals_binary_vector(NotNaN(data_write), sampling_freq,
                     start_uutc, MaxNansFor(max_nans, sampling_freq))
        rows == IF discont_handler THEN found.rows
                ELSE << [start_samples |-> 0, stop_samples |-> Len(data_converted),
                         start_uutc |-> start_uutc, stop_uutc |-> end_uutc] >>
        calls == Dispatch(ci, rows, data_converted, channel, sampling_freq, segment,
                          new_segment)
        reload == ReloadAfter(new_segment, reload_metadata)
        after == [sess EXCEPT ![channel] = @ \o calls]
    IN  IF discont_handler /\ found.raised
        THEN Outcome("raise", "find_intervals", ci, <<>>, FALSE)
        ELSE Outcome("True", "", IF reload THEN reload_session_info(after, override) ELSE ci,
                     calls, reload)

\* new channel: new_segment = True
ForcedNewSegmentKeeps(new_segment) == new_segment
ForcedNewSegment(new_segment) == TRUE

\* the cast of the writer's buffers never leaves the int32 range
WriterCast == "indefinite"

write_data(ci, sess, max_nans, override, data_write, channel, start_uutc, sampling_freq, end_arg, precision_arg, new_segment, discont_handler, reload_metadata) ==
    LET end_uutc == IF end_arg = None
                    THEN InferEndUutc(start_uutc, Len(data_write), sampling_freq)
                    ELSE end_arg
    IN  IF EndBeforeStart(end_uutc, start_uutc)
        THEN Rejected(ci, channel, "end_before_start")
        ELSE IF channel \in DOMAIN ci
        THEN \* a record write_data put there itself has no 'end_time': KeyError
             IF "end_time" \notin DOMAIN ci[channel]
             THEN Outcome("raise", "no_end_time", ci, <<>>, FALSE)
             ELSE IF StartBeforeEndTime(start_uutc, ci[channel].end_time)
             THEN Rejected(ci, channel, "start_before_end_time")
             ELSE IF FsMismatch(sampling_freq, ci[channel].fsamp)
             THEN Rejected(ci, channel, "fs_mismatch")
             ELSE LET precision == PrecisionFromUfact(ci[channel].ufact)
                  IN  PlanAndDispatch(ci, sess, max_nans, override, data_write,
                          convert_data_to_int32(data_write, precision, WriterCast),
                          channel, start_uutc, end_uutc, sampling_freq,
                          ci[channel].n_segments, new_segment, discont_handler,
                          reload_metadata)
        ELSE LET precision == IF precision_arg = None
                              THEN infer_conversion_factor(data_write)
                              ELSE precision_arg
                 entry == [mef_block_len |-> get_mefblock_len(override, sampling_freq),
                           ufact |-> Ufact(precision)]
                 ci2 == [c \in DOMAIN ci \cup {channel} |->
                            IF c = channel THEN entry ELSE ci[c]]
             IN  PlanAndDispatch(ci2, sess, max_nans, override, data_write,
                     convert_data_to_int32(data_write, precision, WriterCast),
                     channel, start_uutc, end_uutc, sampling_freq, 0,
                     ForcedNewSegment(new_segment), discont_handler, reload_metadata)

-----------------------------------------------------------------------------
(* find_intervals_binary_vector applied to one input *)

NotCalled == [raised |-> FALSE, rows |-> <<>>]

IntervalsIdle ==
    /\ iv_vec = <<>> /\ iv_tol = 0 /\ iv_fs = 1000000 /\ iv_start = 0
    /\ iv_pc = "idle" /\ iv_res = NotCalled

QuantIdle ==
    /\ q_buf = <<>> /\ q_pc = "idle" /\ q_prec = 0 /\ q_conv = <<>>
    /\ q_ok = FALSE /\ q_alpha = 1 /\ q_range = FALSE

\* last: the channel, the outcome and the storage calls of the last
\* write_data call and, when it returned True, its start_uutc
NoCall == [channel |-> "", start_uutc |-> None, ret |-> "no call",
           why |-> "", calls |-> <<>>, reloaded |-> FALSE, new_channel |-> FALSE]

WriterIdle ==
    /\ channel_info = <<>> /\ session = [c \in Channels |-> <<>>]
    /\ max_nans_written = MaxNansFs /\ mef_block_len = None
    /\ last = NoCall /\ nwrites = 0 /\ unsafe_append = FALSE

\* the scopes of annotations: channel=None is the session
Scopes == {"session", "a"}

\* a scope without a records file
NoRecords == [stored |-> FALSE, start_time |-> None, end_time |-> None,
              record_list |-> <<>>]

AnnotIdle ==
    /\ an_store = [sc \in Scopes |-> NoRecords]
    /\ an_written = [sc \in Scopes |-> <<>>]
    /\ an_last = "no call"
    /\ an_calls = 0

\* the channels of the session a reader is opened on
ReaderChannels == {"a", "b"}

NotRead == [raised |-> FALSE, channels_to_pick |-> {}, t_stamp1 |-> None,
            t_stamp2 |-> None]

ReaderIdle ==
    /\ rd_bi = [ch \in ReaderChannels |-> [start_time |-> 0, end_time |-> 1]]
    /\ rd_channels = {} /\ rd_t1 = None /\ rd_t2 = None
    /\ rd_pc = "idle" /\ rd_res = NotRead

\* the two calls in progress and the channels they can name
Calls == {1, 2}
ConcChannels == {"a", "b"}

\* self.section2_ts_dict, the fields _create_segment sets
Section2(sampling_frequency, start_sample, recording_duration, units_conversion_factor) ==
    [sampling_frequency |-> sampling_frequency, start_sample |-> start_sample,
     recording_duration |-> recording_duration,
     units_conversion_factor |-> units_conversion_factor]

\* the local variables of a call that has not started
NoLocals == [segment |-> None, new_segment |-> FALSE, data_converted |-> <<>>,
             bi |-> <<>>, ret |-> "", calls |-> <<>>]

ConcurrentIdle ==
    /\ cc_shared = FALSE
    /\ cc_session0 = [ch \in ConcChannels |-> <<>>]
    /\ cc_session = [ch \in ConcChannels |-> <<>>]
    /\ cc_cache = [w \in Calls |-> <<>>]
    /\ cc_sec2 = [w \in Calls |-> Section2(None, 0, None, Ufact(0))]
    /\ cc_args = [t \in Calls |-> [channel |-> "", start_uutc |-> None,
                                    sampling_freq |-> None, precision |-> None,
                                    new_segment |-> FALSE,
                                    reload_metadata |-> FALSE]]
    /\ cc_pc = [t \in Calls |-> "idle"]
    /\ cc_loc = [t \in Calls |-> NoLocals]

\* no first write in progress
NewChannelIdle ==
    /\ nc_args = [data_write |-> <<>>, sampling_freq |-> None, precision |-> None,
                  discont_handler |-> FALSE]
    /\ nc_pc = "idle"
    /\ nc_out = Outcome("no call", "", <<>>, <<>>, FALSE)

InitIntervals ==
    /\ iv_vec \in SeqsOf({0, 1}, 1, MaxVecLen)
    /\ iv_tol \in 0..MaxTol
    /\ iv_fs \in SamplingFreqs
    /\ iv_start \in {0, 7}
    /\ iv_pc = "call"
    /\ iv_res = NotCalled
    /\ QuantIdle
    /\ WriterIdle
    /\ AnnotIdle
    /\ ReaderIdle
    /\ ConcurrentIdle
    /\ NewChannelIdle

FindIntervals ==
    /\ iv_pc = "call"
    /\ iv_res' = find_intervals_binary_vector(iv_vec, iv_fs, iv_start, iv_tol)
    /\ iv_pc' = "done"
    /\ UNCHANGED <<iv_vec, iv_tol, iv_fs, iv_start, qvars, wvars, avars, rvars, cvars, nvars>>

NextIntervals == FindIntervals

SpecIntervals == InitIntervals /\ [][NextIntervals]_vars

-----------------------------------------------------------------------------
(* Claims about find_intervals_binary_vector (SpecIntervals) *)

\* sample i (0-based) of the input vector is valid
ValidAt(i) == iv_vec[i + 1] = 1

\* the maximal runs of valid samples, as pairs <<start, stop>> (stop exclusive)
MaximalRuns ==
    {r \in (0..Len(iv_vec)) \X (0..Len(iv_vec)) :
        /\ r[1] < r[2]
        /\ \A i \in r[1]..(r[2] - 1) : ValidAt(i)
        /\ r[1] = 0 \/ ~ValidAt(r[1] - 1)
        /\ r[2] = Len(iv_vec) \/ ~ValidAt(r[2])}

\* two maximal runs with no other run between them
AdjacentRuns(r1, r2) ==
    /\ r1[2] < r2[1]
    /\ \A i \in r1[2]..(r2[1] - 1) : ~ValidAt(i)

RowPairs == {<<iv_res.rows[j].start_samples, iv_res.rows[j].stop_samples>> :
                j \in 1..Len(iv_res.rows)}

InSameInterval(r1, r2) ==
    \E row \in RowPairs : row[1] <= r1[1] /\ r2[2] <= row[2]

Returned == iv_pc = "done" /\ ~iv_res.raised

\* C3: two adjacent maximal runs of valid samples end up in the same output
\* interval exactly when the gap between them (start of the next minus stop
\* of the previous) is less than or equal to samples_of_nans_allowed, so two
\* consecutive output intervals are separated by a gap strictly larger than
\* the tolerance.
C3_MergeRule ==
    Returned =>
        /\ \A r1 \in MaximalRuns : \A r2 \in MaximalRuns :
              AdjacentRuns(r1, r2) =>
                  ((r2[1] - r1[2] <= iv_tol) <=> InSameInterval(r1, r2))
        /\ \A j \in 1..(Len(iv_res.rows) - 1) :
              iv_res.rows[j + 1].start_samples - iv_res.rows[j].stop_samples > iv_tol

\* C4: an all-true vector of length n >= 1 yields exactly the interval
\* [0, n); an all-false vector returns normally with zero intervals.
C4_EdgeCases ==
    iv_pc = "done" =>
        /\ (\A i \in 0..(Len(iv_vec) - 1) : ValidAt(i)) =>
              /\ ~iv_res.raised
              /\ RowPairs = {<<0, Len(iv_vec)>>}
              /\ Len(iv_res.rows) = 1
        /\ (\A i \in 0..(Len(iv_vec) - 1) : ~ValidAt(i)) =>
              /\ ~iv_res.raised
              /\ iv_res.rows = <<>>

\* C5: for every validity vector and every tolerance the call returns
\* intervals that are sorted by start_samples, pairwise disjoint, inside
\* [0, len], each starts at a valid sample and ends right after a valid
\* sample, every valid sample lies in exactly one interval, and with
\* tolerance 0 they are exactly the maximal runs of valid samples.
C5_Coverage ==
    iv_pc = "done" =>
        LET rows == iv_res.rows
            n == Len(rows)
        IN  /\ ~iv_res.raised
            /\ \A j \in 1..(n - 1) :
                  /\ rows[j].start_samples < rows[j + 1].start_samples
                  /\ rows[j].stop_samples <= rows[j + 1].start_samples
            /\ \A j \in 1..n :
                  /\ 0 <= rows[j].start_samples
                  /\ rows[j].start_samples < rows[j].stop_samples
                  /\ rows[j].stop_samples <= Len(iv_vec)
                  /\ ValidAt(rows[j].start_samples)
                  /\ ValidAt(rows[j].stop_samples - 1)
            /\ \A i \in 0..(Len(iv_vec) - 1) :
                  ValidAt(i) =>
                      Cardinality({j \in 1..n :
                          rows[j].start_samples <= i /\ i < rows[j].stop_samples}) = 1
            /\ iv_tol = 0 => (RowPairs = MaximalRuns /\ n = Cardinality(MaximalRuns))

-----------------------------------------------------------------------------
(* The quantization functions applied to one buffer *)

\* sample values, in units of 10^-DecimalDigits
QValues == {NaN, 0, 5, 30000000, 30000005, -30000000}

InitQuant ==
    /\ q_buf \in SeqsOf(QValues, 1, MaxBufLen)
    /\ q_pc = "start"
    /\ q_prec = 0 /\ q_conv = <<>> /\ q_ok = FALSE /\ q_alpha = 1 /\ q_range = FALSE
    /\ IntervalsIdle
    /\ WriterIdle
    /\ AnnotIdle
    /\ ReaderIdle
    /\ ConcurrentIdle
    /\ NewChannelIdle

\* check_int32_dynamic_range on the buffer's extremes and a factor 10^e
CheckRange(e) ==
    /\ q_pc = "start"
    /\ q_alpha' = Pow10(e)
    /\ q_range' = check_int32_dynamic_range(NanMin(q_buf), NanMax(q_buf), Pow10(e))
    /\ q_pc' = "ranged"
    /\ UNCHANGED <<q_buf, q_prec, q_conv, q_ok, ivars, wvars, avars, rvars, cvars, nvars>>

InferConversionFactor ==
    /\ q_pc = "start"
    /\ q_prec' = infer_conversion_factor(q_buf)
    /\ q_pc' = "inferred"
    /\ UNCHANGED <<q_buf, q_conv, q_ok, q_alpha, q_range, ivars, wvars, avars, rvars, cvars, nvars>>

ConvertDataToInt32(outcome) ==
    /\ q_pc = "inferred"
    /\ q_conv' = convert_data_to_int32(q_buf, q_prec, outcome)
    /\ q_pc' = "converted"
    /\ UNCHANGED <<q_buf, q_prec, q_ok, q_alpha, q_range, ivars, wvars, avars, rvars, cvars, nvars>>

CheckDataIntegrity ==
    /\ q_pc = "converted"
    /\ q_ok' = check_data_integrity(q_buf, q_conv, q_prec)
    /\ q_pc' = "checked"
    /\ UNCHANGED <<q_buf, q_prec, q_conv, q_alpha, q_range, ivars, wvars, avars, rvars, cvars, nvars>>

NextQuant ==
    \/ \E e \in 0..MaxAlphaExp : CheckRange(e)
    \/ InferConversionFactor
    \/ \E outcome \in CastOutcomes : ConvertDataToInt32(outcome)
    \/ CheckDataIntegrity

SpecQuant == InitQuant /\ [][NextQuant]_vars

-----------------------------------------------------------------------------
(* Claims about the quantization functions (SpecQuant) *)

\* x * 10^e lies in the signed 32-bit range
FitsInt32(x, e) ==
    ~ScaledBelowMin(x, Pow10(e)) /\ ~ScaledAboveMax(x, Pow10(e))

Inferred == q_pc \in {"inferred", "converted", "checked"}

\* C6: the precision p infer_conversion_factor returns is 0 or keeps
\* min(buffer) * 10^p and max(buffer) * 10^p inside the signed 32-bit range,
\* so convert_data_to_int32 at that precision never leaves the range.
C6_NoInt32Overflow ==
    Inferred =>
        \/ q_prec = 0
        \/ \A i \in 1..Len(q_buf) : ~IsNaN(q_buf[i]) => FitsInt32(q_buf[i], q_prec)

\* C7: for every buffer, with p the inferred precision and q the buffer
\* converted at p, check_data_integrity(buffer, q, p) is true.
C7_RoundTrip == q_pc = "checked" => q_ok

\* C8: check_int32_dynamic_range returns True exactly when x_min * alpha and
\* x_max * alpha both lie in the int32 range.
C8_RangeCheckExact ==
    q_pc = "ranged" =>
        (q_range <=> (/\ ~ScaledBelowMin(NanMin(q_buf), q_alpha)
                      /\ ~ScaledAboveMax(NanMax(q_buf), q_alpha)))

\* C9: the precision p infer_conversion_factor returns passes
\* check_int32_dynamic_range(min(buffer), max(buffer), 10^p), unless p = 0.
C9_InferredPassesCheck ==
    Inferred =>
        \/ q_prec = 0
        \/ check_int32_dynamic_range(NanMin(q_buf), NanMax(q_buf), Pow10(q_prec))

\* a buffer whose inferred precision was decreased and stayed positive
C9_Witness ==
    /\ Inferred
    /\ q_prec > 0
    /\ ~check_int32_dynamic_range(NanMin(q_buf), NanMax(q_buf), Pow10(q_prec + 1))

-----------------------------------------------------------------------------
(* MefWriter: a writer on a new session, and its operations *)

\* the buffers given to write_data, in units of 10^-DecimalDigits
WriterBuffers == { <<15>>, <<15, NaN, 15>>, <<NaN>> }

PrecisionArgs == {None, 1}

\* end_uutc arguments for a call starting at start_uutc: left out, before
\* the start, after the start
EndArgs(start_uutc) == {None, start_uutc - 1, start_uutc + 1}

\* a session written earlier: channel "a" with one segment of one sample
EarlierSession ==
    [c \in Channels |->
        IF c = "a"
        THEN create_segment([a |-> [ufact |-> Ufact(0), mef_block_len |-> 1000000]],
                            <<2>>, "a", 0, 1, 1000000, 0)
        ELSE <<>>]

\* MefWriter(session_path, overwrite=True), on a new session, or
\* MefWriter(session_path) on an existing one, which reloads the metadata
Init ==
    /\ session \in {[c \in Channels |-> <<>>], EarlierSession}
    /\ channel_info = reload_session_info(session, None)
    /\ max_nans_written = MaxNansFs
    /\ mef_block_len = None
    /\ last = NoCall
    /\ nwrites = 0
    /\ unsafe_append = FALSE
    /\ IntervalsIdle
    /\ QuantIdle
    /\ AnnotIdle
    /\ ReaderIdle
    /\ ConcurrentIdle
    /\ NewChannelIdle

WriteData(data_write, channel, start_uutc, sampling_freq, end_arg, precision_arg, new_segment, discont_handler, reload_metadata) ==
    /\ nwrites < MaxWrites
    /\ LET out == write_data(channel_info, session, max_nans_written, mef_block_len,
                      data_write, channel, start_uutc, sampling_freq, end_arg,
                      precision_arg, new_segment, discont_handler, reload_metadata)
       IN  /\ channel_info' = out.channel_info
           /\ session' = [session EXCEPT ![channel] = @ \o out.calls]
           /\ last' = [channel |-> channel,
                       start_uutc |-> IF out.ret = "True" THEN start_uutc ELSE None,
                       ret |-> out.ret, why |-> out.why, calls |-> out.calls,
                       reloaded |-> out.reloaded,
                       new_channel |-> channel \notin DOMAIN channel_info]
           /\ unsafe_append' = (unsafe_append \/ (out.ret = "True" /\ ~out.reloaded))
           /\ nwrites' = IF out.ret = "True" THEN nwrites + 1 ELSE nwrites
    /\ UNCHANGED <<max_nans_written, mef_block_len, ivars, qvars, avars, rvars, cvars, nvars>>

\* the max_nans_written setter
SetMaxNansWritten(max_samples) ==
    /\ max_nans_written' = IF max_samples < 0 THEN max_nans_written ELSE max_samples
    /\ UNCHANGED <<channel_info, session, mef_block_len, last, nwrites, unsafe_append,
                   ivars, qvars, avars, rvars, cvars, nvars>>

\* the values given to the mef_block_len setter
MefBlockLens == {100}

\* the mef_block_len setter
SetMefBlockLen(new_mefblock_len) ==
    /\ mef_block_len' = new_mefblock_len
    /\ UNCHANGED <<channel_info, session, max_nans_written, last, nwrites,
                   unsafe_append, ivars, qvars, avars, rvars, cvars, nvars>>

Next ==
    \/ \E data_write \in WriterBuffers, channel \in Channels, start_uutc \in 0..MaxTime,
          sampling_freq \in SamplingFreqs, precision_arg \in PrecisionArgs,
          new_segment \in BOOLEAN, discont_handler \in BOOLEAN,
          reload_metadata \in BOOLEAN :
            \E end_arg \in EndArgs(start_uutc) :
                WriteData(data_write, channel, start_uutc, sampling_freq, end_arg,
                          precision_arg, new_segment, discont_handler, reload_metadata)
    \/ \E max_samples \in -1..MaxNans : SetMaxNansWritten(max_samples)
    \/ \E new_mefblock_len \in MefBlockLens : SetMefBlockLen(new_mefblock_len)

Spec == Init /\ [][Next]_vars

-----------------------------------------------------------------------------
(* Claims about MefWriter.write_data (Spec) *)

\* the blocks of a channel (the storage calls carrying a time range), in the
\* order written, each start at or after the end of the one before
OrderedBlocks(log) ==
    LET timed == TimedCalls(log)
    IN  /\ \A i \in 1..Len(timed) : timed[i].start_uutc <= timed[i].end_uutc
        /\ \A i \in 1..(Len(timed) - 1) : timed[i].end_uutc <= timed[i + 1].start_uutc

\* C1 as stated: with any combination of the new_segment, discont_handler
\* and reload_metadata flags, no two successfully written blocks of a
\* channel overlap in time (each successful write starts at or after the end
\* of what was written before).
C1_BlocksNeverOverlap == \A ch \in Channels : OrderedBlocks(session[ch])

\* C1, amended: as long as no successful write_data call has skipped the
\* metadata reload (an append with reload_metadata=False), each call that
\* returns True has a start_uutc at or after the end of every block written
\* to the channel before, and the blocks of each channel are in time order.
C1_AppendOnlyWhenReloaded ==
    /\ [](~unsafe_append => \A ch \in Channels : OrderedBlocks(session[ch]))
    /\ [][(last'.ret = "True" /\ nwrites' = nwrites + 1 /\ ~unsafe_append) =>
             \A i \in 1..Len(TimedCalls(session[last'.channel])) :
                 TimedCalls(session[last'.channel])[i].end_uutc <= last'.start_uutc]_vars

\* a successful write to an existing channel, every write so far having
\* reloaded the metadata
C1_Witness ==
    /\ last.ret = "True"
    /\ ~last.new_channel
    /\ ~unsafe_append
    /\ last.calls # <<>>
    /\ Len(TimedCalls(session[last.channel])) >= 2

\* C2: a rejected write_data call (end_uutc < start_uutc, start_uutc before
\* the cached end time, sampling_freq different from the channel's) returns
\* None, issues no storage call and leaves the channel metadata cache as it
\* was.
C2_RejectedHasNoEffect ==
    [][last'.ret = "None" =>
          /\ last'.why \in {"end_before_start", "start_before_end_time", "fs_mismatch"}
          /\ last'.calls = <<>>
          /\ session' = session
          /\ channel_info' = channel_info]_vars

\* a write to an existing channel rejected for its sampling frequency
C2_Witness ==
    /\ last.ret = "None"
    /\ last.why = "fs_mismatch"
    /\ last.channel \in DOMAIN channel_info

\* C10: for each channel the segment-create calls carry the indices 0, 1,
\* 2, ... in order, and every append targets the highest segment index
\* created so far.
C10_SegmentOrdering ==
    \A ch \in Channels :
        \A i \in 1..Len(session[ch]) :
            LET created == Len(MetadataCalls(SubSeq(session[ch], 1, i - 1)))
                call == session[ch][i]
            IN  /\ call.op = "metadata" => call.segment = created
                /\ call.op \in {"data", "append"} =>
                      (created >= 1 /\ call.segment = created - 1)

\* a channel with appends to segment 0 and, after segment 1 was created, to
\* segment 1
C10_Witness ==
    \E ch \in Channels :
        /\ \E i \in 1..Len(session[ch]) :
              session[ch][i].op = "append" /\ session[ch][i].segment = 0
        /\ \E i \in 1..Len(session[ch]) :
              session[ch][i].op = "append" /\ session[ch][i].segment = 1


\* the number of samples the storage calls before position i of a log carry
SamplesBefore(log, i) ==
    LET earlier == SampleCalls(SubSeq(log, 1, i - 1))
    IN  SumSeq([j \in 1..Len(earlier) |-> Len(earlier[j].samples)])

\* C11: the start_sample in the metadata of a segment with index k > 0 is
\* the number of samples written to the channel in all earlier segments,
\* also after appends made with reload_metadata=False; for segment 0 it is 0.
C11_StartSampleContinuity ==
    \A ch \in Channels :
        \A i \in 1..Len(session[ch]) :
            session[ch][i].op = "metadata" =>
                session[ch][i].start_sample =
                    IF session[ch][i].segment = 0 THEN 0
                    ELSE SamplesBefore(session[ch], i)


\* the precision that the scale factor stored in segment 0 of a channel stands for
StoredPrecision(ch) ==
    LET ufact == MetadataCalls(session[ch])[1].units_conversion_factor
    IN  Log10(ufact.den) - Log10(ufact.num)

\* C12: a write to a channel already in the cache does the same whatever
\* precision argument it is given, the samples it stores are the buffer
\* quantized at the precision of the channel's stored scale factor, and
\* every segment of a channel carries the units_conversion_factor of its
\* segment 0.
C12_FixedScaleFactor ==
    /\ \A ch \in DOMAIN channel_info :
         \A data_write \in WriterBuffers, start_uutc \in 0..MaxTime,
            sampling_freq \in SamplingFreqs, precision_arg \in PrecisionArgs,
            new_segment \in BOOLEAN, discont_handler \in BOOLEAN,
            reload_metadata \in BOOLEAN :
              \A end_arg \in EndArgs(start_uutc) :
                 LET out == write_data(channel_info, session, max_nans_written,
                                mef_block_len, data_write, ch, start_uutc,
                                sampling_freq, end_arg, precision_arg, new_segment,
                                discont_handler, reload_metadata)
                 IN  /\ out = write_data(channel_info, session, max_nans_written,
                                  mef_block_len, data_write, ch, start_uutc,
                                  sampling_freq, end_arg, None, new_segment,
                                  discont_handler, reload_metadata)
                     /\ (out.ret = "True" /\ ~discont_handler) =>
                            out.calls[Len(out.calls)].samples =
                                convert_data_to_int32(data_write, StoredPrecision(ch),
                                                      WriterCast)
    /\ \A ch \in Channels :
         \A i \in 1..Len(MetadataCalls(session[ch])) :
            MetadataCalls(session[ch])[i].units_conversion_factor =
                MetadataCalls(session[ch])[1].units_conversion_factor

\* a channel created at a precision other than 0 that got a second segment
C12_Witness ==
    \E ch \in DOMAIN channel_info :
        /\ Len(MetadataCalls(session[ch])) >= 2
        /\ StoredPrecision(ch) # 0
        /\ last.ret = "True" /\ ~last.new_channel


\* C13: write_data for a channel that is not in the cache does the same
\* whatever new_segment argument it is given; when it returns True its first
\* storage calls are the metadata write and the data write of segment 0, and
\* it ends with a refresh after which the cache contains the channel.
C13_NewChannelPath ==
    /\ [](\A ch \in Channels \ DOMAIN channel_info :
            \A data_write \in WriterBuffers, start_uutc \in 0..MaxTime,
               sampling_freq \in SamplingFreqs, precision_arg \in PrecisionArgs,
               discont_handler \in BOOLEAN, reload_metadata \in BOOLEAN :
                 \A end_arg \in EndArgs(start_uutc) :
                    write_data(channel_info, session, max_nans_written, mef_block_len,
                        data_write, ch, start_uutc, sampling_freq, end_arg,
                        precision_arg, FALSE, discont_handler, reload_metadata)
                    = write_data(channel_info, session, max_nans_written, mef_block_len,
                        data_write, ch, start_uutc, sampling_freq, end_arg,
                        precision_arg, TRUE, discont_handler, reload_metadata))
    /\ [][(last'.ret = "True" /\ last'.new_channel /\ nwrites' = nwrites + 1) =>
            /\ Len(last'.calls) >= 2
            /\ last'.calls[1].op = "metadata" /\ last'.calls[1].segment = 0
            /\ last'.calls[2].op = "data" /\ last'.calls[2].segment = 0
            /\ \A i \in 3..Len(last'.calls) :
                  last'.calls[i].op = "append" /\ last'.calls[i].segment = 0
            /\ session[last'.channel] = <<>>
            /\ last'.reloaded
            /\ last'.channel \in DOMAIN channel_info'
            /\ channel_info' = reload_session_info(session', mef_block_len')]_vars

\* a first write to a channel that returned True
C13_Witness ==
    /\ last.ret = "True" /\ last.new_channel
    /\ last.channel \in DOMAIN channel_info
    /\ channel_info[last.channel].n_segments = 1


\* C14: a write_data call that reaches dispatch ends with a refresh of the
\* cache from the storage engine, made after its last storage call, exactly
\* when the channel is new, new_segment is set or reload_metadata is set;
\* otherwise it makes no refresh and leaves the cache as it was.
C14_CacheRefreshRule ==
    /\ [](\A ch \in Channels :
            \A data_write \in WriterBuffers, start_uutc \in 0..MaxTime,
               sampling_freq \in SamplingFreqs, new_segment \in BOOLEAN,
               discont_handler \in BOOLEAN, reload_metadata \in BOOLEAN :
                 \A end_arg \in EndArgs(start_uutc) :
                    LET out == write_data(channel_info, session, max_nans_written,
                                   mef_block_len, data_write, ch, start_uutc,
                                   sampling_freq, end_arg, None, new_segment,
                                   discont_handler, reload_metadata)
                    IN  out.ret = "True" =>
                            (out.reloaded <=> (\/ ch \notin DOMAIN channel_info
                                               \/ new_segment
                                               \/ reload_metadata)))
    /\ [][(last'.ret = "True" /\ nwrites' = nwrites + 1) =>
            IF last'.reloaded
            THEN channel_info' = reload_session_info(session', mef_block_len')
            ELSE channel_info' = channel_info]_vars

\* an append that returned True without a refresh: the cache is behind the
\* storage engine
C14_Witness ==
    /\ last.ret = "True" /\ ~last.reloaded /\ last.calls # <<>>
    /\ channel_info # reload_session_info(session, mef_block_len)


\* C20: a write_data call that returns True with k planned intervals issued,
\* when a segment had to be created, the metadata write and the data write
\* of that segment for the first interval and then k - 1 appends to the same
\* segment in interval order; otherwise k appends in interval order to
\* segment n_segments - 1 and no create.  Each call carries the slice
\* [start_samples, stop_samples) of the quantized buffer and, where it
\* carries times, the interval's start_uutc and stop_uutc.
C20_DispatchOrder ==
    \A ch \in Channels :
      \A data_write \in WriterBuffers, start_uutc \in 0..MaxTime,
         sampling_freq \in SamplingFreqs, precision_arg \in PrecisionArgs,
         new_segment \in BOOLEAN, discont_handler \in BOOLEAN :
           \A end_arg \in EndArgs(start_uutc) :
             LET out == write_data(channel_info, session, max_nans_written,
                            mef_block_len, data_write, ch, start_uutc, sampling_freq,
                            end_arg, precision_arg, new_segment, discont_handler, TRUE)
                 known == ch \in DOMAIN channel_info
                 precision ==
                     IF known THEN PrecisionFromUfact(channel_info[ch].ufact)
                     ELSE IF precision_arg = None
                          THEN infer_conversion_factor(data_write)
                          ELSE precision_arg
                 q == convert_data_to_int32(data_write, precision, WriterCast)
                 end_uutc == IF end_arg = None
                             THEN InferEndUutc(start_uutc, Len(data_write), sampling_freq)
                             ELSE end_arg
                 rows == IF discont_handler
                         THEN find_intervals_binary_vector(NotNaN(data_write),
                                  sampling_freq, start_uutc,
                                  MaxNansFor(max_nans_written, sampling_freq)).rows
                         ELSE << [start_samples |-> 0, stop_samples |-> Len(q),
                                  start_uutc |-> start_uutc, stop_uutc |-> end_uutc] >>
                 k == Len(rows)
                 create == ~known \/ new_segment
                 seg == IF ~known THEN 0
                        ELSE IF new_segment THEN channel_info[ch].n_segments
                        ELSE channel_info[ch].n_segments - 1
                 slice(j) == [i \in 1..(rows[j].stop_samples - rows[j].start_samples)
                                 |-> q[rows[j].start_samples + i]]
                 timed(c, j) == /\ c.start_uutc = rows[j].start_uutc
                                /\ c.end_uutc = rows[j].stop_uutc
                 calls == out.calls
             IN  out.ret = "True" =>
                   /\ k >= 1
                   /\ \A j \in 1..(k - 1) :
                         rows[j].start_samples < rows[j + 1].start_samples
                   /\ IF create
                      THEN /\ Len(calls) = k + 1
                           /\ calls[1].op = "metadata" /\ calls[1].segment = seg
                           /\ timed(calls[1], 1)
                           /\ calls[2].op = "data" /\ calls[2].segment = seg
                           /\ calls[2].samples = slice(1)
                           /\ \A j \in 2..k :
                                 /\ calls[j + 1].op = "append"
                                 /\ calls[j + 1].segment = seg
                                 /\ calls[j + 1].samples = slice(j)
                                 /\ timed(calls[j + 1], j)
                      ELSE /\ Len(calls) = k
                           /\ \A j \in 1..k :
                                 /\ calls[j].op = "append"
                                 /\ calls[j].segment = seg
                                 /\ calls[j].samples = slice(j)
                                 /\ timed(calls[j], j)

\* a call that created a segment for its first interval and appended a
\* second interval to it, on a channel that already had a segment
C20_Witness ==
    /\ last.ret = "True" /\ ~last.new_channel
    /\ Len(last.calls) = 3
    /\ last.calls[1].op = "metadata" /\ last.calls[1].segment = 1
    /\ last.calls[3].op = "append" /\ last.calls[3].segment = 1


\* the channels whose cache record came from a refresh
CreatedChannels == {ch \in DOMAIN channel_info : "fsamp" \in DOMAIN channel_info[ch]}

\* C18 as stated: once a channel is in the cache, its sampling frequency,
\* scale factor and block length there keep their values after every later
\* operation of the writer, the property setters included.
C18_ImmutableAttributes ==
    [][\A ch \in CreatedChannels :
          /\ ch \in DOMAIN channel_info'
          /\ channel_info'[ch].fsamp = channel_info[ch].fsamp
          /\ channel_info'[ch].ufact = channel_info[ch].ufact
          /\ channel_info'[ch].mef_block_len = channel_info[ch].mef_block_len]_vars

\* C18, amended: the cached sampling frequency and scale factor of a channel
\* never change; the cached block length is left alone by every operation
\* that makes no refresh and is recomputed by every refresh, to the writer's
\* mef_block_len setting if one is set and else to the value derived from
\* the sampling frequency.
C18_FrequencyAndScaleImmutable ==
    [][\A ch \in CreatedChannels :
          /\ ch \in DOMAIN channel_info'
          /\ channel_info'[ch].fsamp = channel_info[ch].fsamp
          /\ channel_info'[ch].ufact = channel_info[ch].ufact
          /\ channel_info'[ch].mef_block_len =
                IF last'.ret = "True" /\ nwrites' = nwrites + 1 /\ last'.reloaded
                THEN IF mef_block_len = None
                     THEN get_mefblock_len(None, channel_info[ch].fsamp)
                     ELSE mef_block_len
                ELSE channel_info[ch].mef_block_len]_vars

\* a channel whose samples were first stored with one block length and
\* whose cache record now holds another
C18_Witness ==
    \E ch \in CreatedChannels :
        /\ \E i \in 1..Len(session[ch]) :
              /\ session[ch][i].op = "data"
              /\ session[ch][i].block_len # channel_info[ch].mef_block_len
        /\ last.ret = "True" /\ last.reloaded


-----------------------------------------------------------------------------
(* MefWriter.write_annotations (SpecAnnotations) *)

MaxAnnotCalls == 3
MaxBatchLen == 2

\* the values of the time column
AnnotTimes == {50, 100}

\* a record of annotations.to_dict('records')
Record(time) == [time |-> time]

\* annotations['time'].min() and .max(), of a list of records
MinRecordTime(record_list) == SetMin({record_list[i].time : i \in 1..Len(record_list)})
MaxRecordTime(record_list) == SetMax({record_list[i].time : i \in 1..Len(record_list)})

\* if read_start < start_time: start_time = read_start
CombinedStartNew(start_time, read_start) == start_time
CombinedStart(start_time, read_start) ==
    IF read_start < start_time THEN read_start ELSE start_time

\* if read_end > end_time: end_time = read_end
CombinedEnd(end_time, read_end) ==
    IF read_end > end_time THEN read_end ELSE end_time

\* record_list.extend(previous_list)
ExtendRecordsOldFirst(record_list, previous_list) == previous_list \o record_list
ExtendRecords(record_list, previous_list) == record_list \o previous_list

\* _read_annotation_record: the stored list; is_none when nothing is stored
\* (read_records raises KeyError, annot_list stays None)
read_annotation_record(store, scope) ==
    [is_none |-> ~store[scope].stored, list |-> store[scope].record_list]

\* write_annotations: what _write_annotation_record hands to the storage
\* engine.  An empty frame has no minimum time: int(nan) raises ValueError.
write_annotations(store, annotations, scope) ==
    IF annotations = <<>>
    THEN [raised |-> TRUE, start_time |-> None, end_time |-> None, record_list |-> <<>>]
    ELSE LET previous == read_annotation_record(store, scope)
             previous_list == previous.list
         IN  IF previous.is_none
             THEN [raised |-> FALSE, start_time |-> MinRecordTime(annotations),
                   end_time |-> MaxRecordTime(annotations), record_list |-> annotations]
             ELSE [raised |-> FALSE,
                   start_time |-> CombinedStart(MinRecordTime(annotations),
                                                MinRecordTime(previous_list)),
                   end_time |-> CombinedEnd(MaxRecordTime(annotations),
                                            MaxRecordTime(previous_list)),
                   record_list |-> ExtendRecords(annotations, previous_list)]

InitAnnotations ==
    /\ AnnotIdle
    /\ IntervalsIdle
    /\ QuantIdle
    /\ WriterIdle
    /\ ReaderIdle
    /\ ConcurrentIdle
    /\ NewChannelIdle

WriteAnnotations(annotations, scope) ==
    /\ an_calls < MaxAnnotCalls
    /\ an_calls' = an_calls + 1
    /\ LET out == write_annotations(an_store, annotations, scope)
       IN  IF out.raised
           THEN /\ an_last' = "raise"
                /\ UNCHANGED <<an_store, an_written>>
           ELSE /\ an_last' = "written"
                /\ an_store' = [an_store EXCEPT ![scope] =
                                   [stored |-> TRUE, start_time |-> out.start_time,
                                    end_time |-> out.end_time,
                                    record_list |-> out.record_list]]
                /\ an_written' = [an_written EXCEPT ![scope] = Append(@, annotations)]
    /\ UNCHANGED <<ivars, qvars, wvars, rvars, cvars, nvars>>

NextAnnotations ==
    \E times \in SeqsOf(AnnotTimes, 0, MaxBatchLen), scope \in Scopes :
        WriteAnnotations([i \in 1..Len(times) |-> Record(times[i])], scope)

SpecAnnotations == InitAnnotations /\ [][NextAnnotations]_vars

\* the batches of a scope, the last written first, as one list
RECURSIVE NewestFirst(_)
NewestFirst(batches) ==
    IF batches = <<>> THEN <<>>
    ELSE batches[Len(batches)] \o NewestFirst(SubSeq(batches, 1, Len(batches) - 1))

\* C15: the record list a scope holds is the records of the last batch
\* written to it followed by those of each earlier batch, newest first,
\* nothing removed or reordered; its length is the sum of the batch lengths.
C15_AnnotationAccumulation ==
    \A sc \in Scopes :
        IF an_written[sc] = <<>> THEN ~an_store[sc].stored
        ELSE /\ an_store[sc].stored
             /\ an_store[sc].record_list = NewestFirst(an_written[sc])
             /\ Len(an_store[sc].record_list) =
                  SumSeq([i \in 1..Len(an_written[sc]) |-> Len(an_written[sc][i])])

\* three batches on one scope, the stored list neither sorted nor free of
\* duplicates
C15_Witness ==
    \E sc \in Scopes :
        /\ Len(an_written[sc]) = 3
        /\ LET l == an_store[sc].record_list
           IN  /\ \E i \in 1..(Len(l) - 1) : l[i].time > l[i + 1].time
               /\ \E i \in 1..(Len(l) - 1) : l[i].time < l[i + 1].time
               /\ \E i \in 1..(Len(l) - 1) : l[i] = l[i + 1]

\* C16: the start and end times a scope was last written with are the
\* minimum and the maximum time of all records written to it so far.
C16_AnnotationTimeBounds ==
    \A sc \in Scopes :
        an_written[sc] # <<>> =>
            /\ an_store[sc].start_time = MinRecordTime(NewestFirst(an_written[sc]))
            /\ an_store[sc].end_time = MaxRecordTime(NewestFirst(an_written[sc]))

\* the last batch of a scope lies after the start and before the end of
\* what was stored before it
C16_Witness ==
    \E sc \in Scopes :
        /\ Len(an_written[sc]) >= 2
        /\ an_last = "written"
        /\ LET newest == an_written[sc][Len(an_written[sc])]
           IN  \/ MinRecordTime(newest) > an_store[sc].start_time
               \/ MaxRecordTime(newest) < an_store[sc].end_time


-----------------------------------------------------------------------------
(* MefReader.get_raw_data (SpecReader) *)

\* the names a caller asks for; "x" is not a channel of the session
AskedNames == ReaderChannels \cup {"x"}

\* t_stamp1 = min([... 'start_time' ...])
DefaultStart(start_times) == SetMin(start_times)

\* t_stamp2 = min([... 'end_time' ...])
DefaultEnd(end_times) == SetMin(end_times)

\* get_raw_data with a list of names: the arguments of
\* session.read_ts_channels_uutc; min() of an empty list raises ValueError
get_raw_data(bi, channels, t_stamp1, t_stamp2) ==
    LET channels_to_pick == channels \cap DOMAIN bi
        needs_default == t_stamp1 = None \/ t_stamp2 = None
    IN  IF needs_default /\ channels_to_pick = {}
        THEN [raised |-> TRUE, channels_to_pick |-> channels_to_pick,
              t_stamp1 |-> None, t_stamp2 |-> None]
        ELSE [raised |-> FALSE, channels_to_pick |-> channels_to_pick,
              t_stamp1 |-> IF t_stamp1 = None
                           THEN DefaultStart({bi[ch].start_time : ch \in channels_to_pick})
                           ELSE t_stamp1,
              t_stamp2 |-> IF t_stamp2 = None
                           THEN DefaultEnd({bi[ch].end_time : ch \in channels_to_pick})
                           ELSE t_stamp2]

InitReader ==
    /\ rd_bi \in [ReaderChannels ->
                    {r \in [start_time : 0..MaxTime, end_time : 1..(MaxTime + 1)] :
                        r.start_time < r.end_time}]
    /\ rd_channels \in SUBSET AskedNames \ {{}}
    /\ rd_t1 \in {None} \cup 0..MaxTime
    /\ rd_t2 \in {None} \cup 1..(MaxTime + 1)
    /\ rd_pc = "call"
    /\ rd_res = NotRead
    /\ IntervalsIdle
    /\ QuantIdle
    /\ WriterIdle
    /\ AnnotIdle
    /\ ConcurrentIdle
    /\ NewChannelIdle

GetRawData ==
    /\ rd_pc = "call"
    /\ rd_res' = get_raw_data(rd_bi, rd_channels, rd_t1, rd_t2)
    /\ rd_pc' = "done"
    /\ UNCHANGED <<rd_bi, rd_channels, rd_t1, rd_t2, ivars, qvars, wvars, avars, cvars, nvars>>

NextReader == GetRawData

SpecReader == InitReader /\ [][NextReader]_vars

\* C19: for a non-empty selection of channels of the session, get_raw_data
\* with t_stamp1 omitted reads from the earliest start_time of the selected
\* channels, and with t_stamp2 omitted reads up to their latest end_time.
C19_DefaultTimeRange ==
    (rd_pc = "done" /\ rd_channels \cap ReaderChannels # {}) =>
        /\ ~rd_res.raised
        /\ rd_t1 = None =>
              rd_res.t_stamp1 =
                  SetMin({rd_bi[ch].start_time : ch \in rd_res.channels_to_pick})
        /\ rd_t2 = None =>
              rd_res.t_stamp2 =
                  SetMax({rd_bi[ch].end_time : ch \in rd_res.channels_to_pick})


-----------------------------------------------------------------------------
(* Two write_data calls in progress at once (SpecConcurrent).  A step is one
   access of self.channel_info, one access of self.section2_ts_dict or one
   call of the storage engine. *)

\* the buffer both calls write; discont_handler=False, end_uutc omitted
ConcBuffer == <<15>>

\* the start_uutc arguments of the two calls
ConcStarts == {1, 2}

\* the writer object a call is made on
WriterOfShared(t) == 1
WriterOf(t) == IF cc_shared THEN 1 ELSE t

\* a record of read_ts_channel_basic_info, before _reload_session_info adds
\* 'n_segments' and 'mef_block_len' to it
Unfilled(info) ==
    [fsamp |-> info.fsamp, ufact |-> info.ufact, nsamp |-> info.nsamp,
     start_time |-> info.start_time, end_time |-> info.end_time]

InitConcurrent ==
    /\ cc_shared \in BOOLEAN
    /\ cc_session0 \in { [ch \in ConcChannels |-> <<>>],
                         [ch \in ConcChannels |->
                             IF ch = "a" THEN EarlierSession["a"] ELSE <<>>] }
    /\ cc_session = cc_session0
    /\ cc_cache = [w \in Calls |-> reload_session_info(cc_session0, None)]
    /\ cc_sec2 = [w \in Calls |-> Section2(None, 0, None, Ufact(0))]
    /\ cc_args \in [Calls -> [channel : ConcChannels, start_uutc : ConcStarts,
                              sampling_freq : SamplingFreqs, precision : {1},
                              new_segment : BOOLEAN, reload_metadata : BOOLEAN]]
    /\ cc_args[1].channel = "a"
    /\ cc_pc = [t \in Calls |-> "check"]
    /\ cc_loc = [t \in Calls |-> NoLocals]
    /\ IntervalsIdle
    /\ QuantIdle
    /\ WriterIdle
    /\ AnnotIdle
    /\ ReaderIdle
    /\ NewChannelIdle

\* what every step of a call leaves alone
ConcFrame == UNCHANGED <<cc_shared, cc_session0, cc_args, ivars, qvars, wvars, avars,
                         rvars, nvars>>

\* the call returns ret, or ends with an exception (ret = "raise")
Finish(t, ret) ==
    /\ cc_pc' = [cc_pc EXCEPT ![t] = "done"]
    /\ cc_loc' = [cc_loc EXCEPT ![t].ret = ret]

\* self.channel_info[channel][field] can be read
Readable(t, field) ==
    /\ cc_args[t].channel \in DOMAIN cc_cache[WriterOf(t)]
    /\ field \in DOMAIN cc_cache[WriterOf(t)][cc_args[t].channel]

\* self.channel_info[channel], when it can be read
Cached(t) == cc_cache[WriterOf(t)][cc_args[t].channel]

\* self.channel_info[channel]['end_time'][0], when it can be read: what the
\* writer's last refresh found (and, for comparison, what the storage engine
\* holds now)
CachedEndTimeFresh(t) == reload_session_info(cc_session, None)[cc_args[t].channel].end_time
CachedEndTime(t) == Cached(t).end_time

\* if channel in self.channel_info.keys()
CheckChannel(t) ==
    /\ cc_pc[t] = "check"
    /\ cc_pc' = [cc_pc EXCEPT ![t] =
                    IF cc_args[t].channel \in DOMAIN cc_cache[WriterOf(t)]
                    THEN "end_time" ELSE "new_channel"]
    /\ UNCHANGED <<cc_session, cc_cache, cc_sec2, cc_loc>>
    /\ ConcFrame

\* if start_uutc < self.channel_info[channel]['end_time'][0]: return None
ReadEndTime(t) ==
    /\ cc_pc[t] = "end_time"
    /\ IF ~Readable(t, "end_time") THEN Finish(t, "raise")
       ELSE IF StartBeforeEndTime(cc_args[t].start_uutc, CachedEndTime(t))
       THEN Finish(t, "None")
       ELSE cc_pc' = [cc_pc EXCEPT ![t] = "fsamp"] /\ UNCHANGED cc_loc
    /\ UNCHANGED <<cc_session, cc_cache, cc_sec2>>
    /\ ConcFrame

\* if sampling_freq != self.channel_info[channel]['fsamp'][0]: return None
ReadFsamp(t) ==
    /\ cc_pc[t] = "fsamp"
    /\ IF ~Readable(t, "fsamp") THEN Finish(t, "raise")
       ELSE IF FsMismatch(cc_args[t].sampling_freq, Cached(t).fsamp)
       THEN Finish(t, "None")
       ELSE cc_pc' = [cc_pc EXCEPT ![t] = "ufact"] /\ UNCHANGED cc_loc
    /\ UNCHANGED <<cc_session, cc_cache, cc_sec2>>
    /\ ConcFrame

\* precision from self.channel_info[channel]['ufact'][0]; convert_data_to_int32
ReadUfact(t) ==
    /\ cc_pc[t] = "ufact"
    /\ IF ~Readable(t, "ufact") THEN Finish(t, "raise")
       ELSE /\ cc_pc' = [cc_pc EXCEPT ![t] = "n_segments"]
            /\ cc_loc' = [cc_loc EXCEPT ![t].data_converted =
                             convert_data_to_int32(ConcBuffer,
                                 PrecisionFromUfact(Cached(t).ufact), WriterCast)]
    /\ UNCHANGED <<cc_session, cc_cache, cc_sec2>>
    /\ ConcFrame

\* segment = self.channel_info[channel]['n_segments']; segment -= 1 on the
\* append branch
ReadNSegments(t) ==
    /\ cc_pc[t] = "n_segments"
    /\ IF ~Readable(t, "n_segments") THEN Finish(t, "raise")
       ELSE /\ cc_pc' = [cc_pc EXCEPT ![t] =
                            IF cc_args[t].new_segment THEN "sec2_fs" ELSE "append"]
            /\ cc_loc' = [cc_loc EXCEPT
                             ![t].new_segment = cc_args[t].new_segment,
                             ![t].segment = IF cc_args[t].new_segment
                                            THEN Cached(t).n_segments
                                            ELSE LastSegment(Cached(t).n_segments)]
    /\ UNCHANGED <<cc_session, cc_cache, cc_sec2>>
    /\ ConcFrame

\* new channel: self.channel_info[channel] = {'mef_block_len': ..., 'ufact': ...}
PutNewChannel(t) ==
    /\ cc_pc[t] = "new_channel"
    /\ LET w == WriterOf(t)
           ch == cc_args[t].channel
           entry == [mef_block_len |-> get_mefblock_len(None, cc_args[t].sampling_freq),
                     ufact |-> Ufact(cc_args[t].precision)]
       IN  cc_cache' = [cc_cache EXCEPT ![w] =
                           [c \in DOMAIN cc_cache[w] \cup {ch} |->
                               IF c = ch THEN entry ELSE cc_cache[w][c]]]
    /\ cc_loc' = [cc_loc EXCEPT
                     ![t].new_segment = ForcedNewSegment(cc_args[t].new_segment),
                     ![t].segment = 0,
                     ![t].data_converted =
                         convert_data_to_int32(ConcBuffer, cc_args[t].precision,
                                               WriterCast)]
    /\ cc_pc' = [cc_pc EXCEPT ![t] = "sec2_fs"]
    /\ UNCHANGED <<cc_session, cc_sec2>>
    /\ ConcFrame


\* end_uutc = int64(start_uutc + (len(data_write)/sampling_freq * 1e6))
ConcEndUutc(t) ==
    InferEndUutc(cc_args[t].start_uutc, Len(ConcBuffer), cc_args[t].sampling_freq)

\* the call t issues a storage call
Issue(t, call) ==
    /\ cc_session' = [cc_session EXCEPT ![cc_args[t].channel] = Append(@, call)]
    /\ cc_loc' = [cc_loc EXCEPT ![t].calls = Append(@, call)]

\* _create_segment: self.section2_ts_dict['sampling_frequency'] = sampling_frequency
SetSec2Fs(t) ==
    /\ cc_pc[t] = "sec2_fs"
    /\ cc_sec2' = [cc_sec2 EXCEPT ![WriterOf(t)].sampling_frequency =
                      cc_args[t].sampling_freq]
    /\ cc_pc' = [cc_pc EXCEPT ![t] = "sec2_start"]
    /\ UNCHANGED <<cc_session, cc_cache, cc_loc>>
    /\ ConcFrame

\* _create_segment: self.section2_ts_dict['start_sample'] and
\* ['recording_duration']
SetSec2StartSample(t) ==
    /\ cc_pc[t] = "sec2_start"
    /\ IF cc_loc[t].segment # 0 /\ ~Readable(t, "nsamp")
       THEN Finish(t, "raise") /\ UNCHANGED cc_sec2
       ELSE /\ cc_sec2' = [cc_sec2 EXCEPT
                              ![WriterOf(t)].start_sample =
                                  IF cc_loc[t].segment = 0 THEN 0 ELSE Cached(t).nsamp,
                              ![WriterOf(t)].recording_duration =
                                  (ConcEndUutc(t) - cc_args[t].start_uutc) \div 1000000]
            /\ cc_pc' = [cc_pc EXCEPT ![t] = "sec2_ufact"]
            /\ UNCHANGED cc_loc
    /\ UNCHANGED <<cc_session, cc_cache>>
    /\ ConcFrame

\* _create_segment: self.section2_ts_dict['units_conversion_factor'] =
\* self.channel_info[channel]['ufact'][0]
SetSec2Ufact(t) ==
    /\ cc_pc[t] = "sec2_ufact"
    /\ IF ~Readable(t, "ufact")
       THEN Finish(t, "raise") /\ UNCHANGED cc_sec2
       ELSE /\ cc_sec2' = [cc_sec2 EXCEPT ![WriterOf(t)].units_conversion_factor =
                              Cached(t).ufact]
            /\ cc_pc' = [cc_pc EXCEPT ![t] = "metadata"]
            /\ UNCHANGED cc_loc
    /\ UNCHANGED <<cc_session, cc_cache>>
    /\ ConcFrame

\* _create_segment: session.write_mef_ts_segment_metadata(...,
\* dict(self.section2_ts_dict), ...)
WriteSegmentMetadata(t) ==
    /\ cc_pc[t] = "metadata"
    /\ LET sec2 == cc_sec2[WriterOf(t)]
       IN  Issue(t, StorageCall("metadata", cc_loc[t].segment, cc_args[t].start_uutc,
                        ConcEndUutc(t), sec2.sampling_frequency, sec2.start_sample,
                        sec2.recording_duration, sec2.units_conversion_factor,
                        None, <<>>))
    /\ cc_pc' = [cc_pc EXCEPT ![t] = "data"]
    /\ UNCHANGED <<cc_cache, cc_sec2>>
    /\ ConcFrame

\* _create_segment: session.write_mef_ts_segment_data(...,
\* self.channel_info[channel]['mef_block_len'], data)
WriteSegmentData(t) ==
    /\ cc_pc[t] = "data"
    /\ IF ~Readable(t, "mef_block_len")
       THEN Finish(t, "raise") /\ UNCHANGED cc_session
       ELSE /\ Issue(t, StorageCall("data", cc_loc[t].segment, None, None, None, None,
                            None, None, Cached(t).mef_block_len,
                            cc_loc[t].data_converted))
            /\ cc_pc' = [cc_pc EXCEPT ![t] = "reload"]
    /\ UNCHANGED <<cc_cache, cc_sec2>>
    /\ ConcFrame

\* _append_block: session.append_mef_ts_segment_data(...,
\* self.channel_info[channel]['mef_block_len'], data); then
\* if reload_metadata: ... else return True
AppendBlock(t) ==
    /\ cc_pc[t] = "append"
    /\ IF ~Readable(t, "mef_block_len")
       THEN Finish(t, "raise") /\ UNCHANGED cc_session
       ELSE /\ cc_session' = [cc_session EXCEPT ![cc_args[t].channel] = @ \o
                                 append_block(cc_cache[WriterOf(t)], cc_loc[t].data_converted,
                                     cc_args[t].channel, cc_args[t].start_uutc,
                                     ConcEndUutc(t), cc_loc[t].segment)]
            /\ cc_loc' = [cc_loc EXCEPT
                             ![t].calls = @ \o
                                 append_block(cc_cache[WriterOf(t)], cc_loc[t].data_converted,
                                     cc_args[t].channel, cc_args[t].start_uutc,
                                     ConcEndUutc(t), cc_loc[t].segment),
                             ![t].ret = IF ReloadAfter(FALSE, cc_args[t].reload_metadata)
                                        THEN "" ELSE "True"]
            /\ cc_pc' = [cc_pc EXCEPT ![t] =
                            IF ReloadAfter(FALSE, cc_args[t].reload_metadata)
                            THEN "reload" ELSE "done"]
    /\ UNCHANGED <<cc_cache, cc_sec2>>
    /\ ConcFrame

\* _reload_session_info: self.session.reload();
\* self.bi = self.session.read_ts_channel_basic_info()
ReloadRead(t) ==
    /\ cc_pc[t] = "reload"
    /\ cc_loc' = [cc_loc EXCEPT ![t].bi = reload_session_info(cc_session, None)]
    /\ cc_pc' = [cc_pc EXCEPT ![t] = "assign"]
    /\ UNCHANGED <<cc_session, cc_cache, cc_sec2>>
    /\ ConcFrame

\* _reload_session_info: self.channel_info = {info['name']: deepcopy(info) ...}
ReloadAssign(t) ==
    /\ cc_pc[t] = "assign"
    /\ cc_cache' = [cc_cache EXCEPT ![WriterOf(t)] =
                       [ch \in DOMAIN cc_loc[t].bi |-> Unfilled(cc_loc[t].bi[ch])]]
    /\ cc_pc' = [cc_pc EXCEPT ![t] = "fill"]
    /\ UNCHANGED <<cc_session, cc_sec2, cc_loc>>
    /\ ConcFrame

\* _reload_session_info: the loop that sets 'n_segments' and 'mef_block_len'
\* of the records of self.channel_info; then return True
ReloadFill(t) ==
    /\ cc_pc[t] = "fill"
    /\ LET w == WriterOf(t)
           bi == cc_loc[t].bi
       IN  IF DOMAIN bi \subseteq DOMAIN cc_cache[w]
           THEN /\ cc_cache' = [cc_cache EXCEPT ![w] =
                                   [ch \in DOMAIN cc_cache[w] |->
                                       IF ch \in DOMAIN bi /\ "fsamp" \in DOMAIN cc_cache[w][ch]
                                       THEN [fsamp |-> cc_cache[w][ch].fsamp,
                                             ufact |-> cc_cache[w][ch].ufact,
                                             nsamp |-> cc_cache[w][ch].nsamp,
                                             start_time |-> cc_cache[w][ch].start_time,
                                             end_time |-> cc_cache[w][ch].end_time,
                                             n_segments |-> bi[ch].n_segments,
                                             mef_block_len |->
                                                 get_mefblock_len(None, cc_cache[w][ch].fsamp)]
                                       ELSE cc_cache[w][ch]]]
                /\ Finish(t, "True")
           ELSE Finish(t, "raise") /\ UNCHANGED cc_cache
    /\ UNCHANGED <<cc_session, cc_sec2>>
    /\ ConcFrame

NextConcurrent ==
    \E t \in Calls :
        \/ CheckChannel(t)
        \/ ReadEndTime(t)
        \/ ReadFsamp(t)
        \/ ReadUfact(t)
        \/ ReadNSegments(t)
        \/ PutNewChannel(t)
        \/ SetSec2Fs(t)
        \/ SetSec2StartSample(t)
        \/ SetSec2Ufact(t)
        \/ WriteSegmentMetadata(t)
        \/ WriteSegmentData(t)
        \/ AppendBlock(t)
        \/ ReloadRead(t)
        \/ ReloadAssign(t)
        \/ ReloadFill(t)

SpecConcurrent == InitConcurrent /\ [][NextConcurrent]_vars


\* what the call t does when nothing else runs: write_data on the session
\* and the cache as both calls found them
Alone(t) ==
    write_data(reload_session_info(cc_session0, None), cc_session0, MaxNansFs, None,
               ConcBuffer, cc_args[t].channel, cc_args[t].start_uutc,
               cc_args[t].sampling_freq, None, cc_args[t].precision,
               cc_args[t].new_segment, FALSE, cc_args[t].reload_metadata)

DistinctChannels == cc_args[1].channel # cc_args[2].channel

\* a finished call returned what it returns alone and issued the storage
\* calls it issues alone
AsAlone(t) ==
    cc_pc[t] = "done" =>
        /\ cc_loc[t].ret = Alone(t).ret
        /\ cc_loc[t].calls = Alone(t).calls

\* C17 as stated: two write_data calls on two different channels, interleaved
\* access by access, each complete and issue exactly the storage calls
\* (segment index, timestamps, start_sample, sampling frequency, scale
\* factor, block length, samples) they issue when run one after the other.
C17_DistinctChannelsIndependent ==
    DistinctChannels => \A t \in Calls : AsAlone(t)

\* C17, amended: that holds when each of the two calls is made on a MefWriter
\* object of its own.
C17_IndependentOnSeparateWriters ==
    (DistinctChannels /\ ~cc_shared) => \A t \in Calls : AsAlone(t)

\* both calls, on writers of their own, created a segment on their channel,
\* and the first writer refreshed its cache between the other call's
\* metadata write and data write
C17_Witness ==
    /\ DistinctChannels /\ ~cc_shared
    /\ \A t \in Calls :
          /\ cc_pc[t] = "done" /\ cc_loc[t].ret = "True"
          /\ cc_loc[t].calls # <<>> /\ cc_loc[t].calls[1].op = "metadata"
    /\ cc_args[1].sampling_freq # cc_args[2].sampling_freq
    /\ "b" \in DOMAIN cc_cache[1]
    /\ cc_cache[1]["b"].nsamp = 0

\* the two calls name the same channel
SameChannel == cc_args[1].channel = cc_args[2].channel

\* the call passed the checks and issued its storage calls
Dispatched(t) ==
    /\ cc_pc[t] = "done" /\ cc_loc[t].ret = "True"
    /\ cc_loc[t].calls # <<>>

\* the time ranges [start_uutc, end_uutc) the two calls write intersect
ClashingRanges ==
    /\ cc_args[1].start_uutc < ConcEndUutc(2)
    /\ cc_args[2].start_uutc < ConcEndUutc(1)

\* C21: two write_data calls on the same channel, each made on a writer with
\* a metadata cache of its own and interleaved freely, are each checked
\* against what that writer's last refresh found: a finished call returned
\* what it returns when it runs alone, whatever the other call had written
\* by then, and when both dispatched blocks whose time ranges intersect the
\* channel is left with blocks that overlap or are out of time order.
C21_SameChannelRace ==
    (SameChannel /\ ~cc_shared) =>
        /\ \A t \in Calls : cc_pc[t] = "done" => cc_loc[t].ret = Alone(t).ret
        /\ ((\A t \in Calls : Dispatched(t)) /\ ClashingRanges) =>
               ~OrderedBlocks(cc_session[cc_args[1].channel])

\* both calls appended to the channel "a" written earlier; the second call
\* passed the check after the first had written its block, against an
\* end_time that was read before that write, and both blocks are stored
C21_Witness ==
    /\ SameChannel /\ ~cc_shared
    /\ cc_args[1].channel \in DOMAIN reload_session_info(cc_session0, None)
    /\ \A t \in Calls : Dispatched(t) /\ ~cc_args[t].new_segment
    /\ cc_args[2].start_uutc <
          reload_session_info([cc_session0 EXCEPT !["a"] = @ \o cc_loc[1].calls],
                              None)["a"].end_time
    /\ cc_session["a"] = cc_session0["a"] \o cc_loc[1].calls \o cc_loc[2].calls
    /\ ~OrderedBlocks(cc_session["a"])

-----------------------------------------------------------------------------
(* The first write_data call for a channel (SpecNewChannel) *)

\* the sample values of the buffers, in units of 10^-DecimalDigits
NewChannelSamples == {NaN, 0, 4, 15, 25}

\* the buffers given to the call
NewChannelBuffers ==
    { <<x>> : x \in NewChannelSamples } \cup
    { <<x, y>> : x \in NewChannelSamples, y \in NewChannelSamples }

\* the precision arguments: left out, non-negative integers, negative integers
NewChannelPrecisions == {None, 0, 1, 2, -1, -2}

\* MefWriter(session_path, overwrite=True): nothing stored, nothing cached
NewSession == [c \in Channels |-> <<>>]

InitNewChannel ==
    /\ nc_args \in [data_write : NewChannelBuffers, sampling_freq : SamplingFreqs,
                    precision : NewChannelPrecisions, discont_handler : BOOLEAN]
    /\ nc_pc = "call"
    /\ nc_out = Outcome("no call", "", <<>>, <<>>, FALSE)
    /\ IntervalsIdle
    /\ QuantIdle
    /\ WriterIdle
    /\ AnnotIdle
    /\ ReaderIdle
    /\ ConcurrentIdle

\* write_data(data_write, "a", 0, sampling_freq, precision=precision,
\* discont_handler=discont_handler)
WriteNewChannel ==
    /\ nc_pc = "call"
    /\ nc_out' = write_data(reload_session_info(NewSession, None), NewSession, MaxNansFs,
                            None, nc_args.data_write, "a", 0, nc_args.sampling_freq,
                            None, nc_args.precision, FALSE, nc_args.discont_handler,
                            FALSE)
    /\ nc_pc' = "done"
    /\ UNCHANGED <<nc_args, ivars, qvars, wvars, avars, rvars, cvars>>

NextNewChannel == WriteNewChannel

SpecNewChannel == InitNewChannel /\ [][NextNewChannel]_vars

\* the precision at which convert_data_to_int32 quantizes the buffer of the
\* call
QuantizedAt ==
    NormalisedPrecision(IF nc_args.precision = None
                        THEN infer_conversion_factor(nc_args.data_write)
                        ELSE nc_args.precision)

\* C22: for every precision argument of a first write to a channel (left
\* out, a non-negative integer, or a value convert_data_to_int32 sets to 0),
\* the units_conversion_factor stored with segment 0 is 10^-p for the
\* precision p at which the buffer was quantized, and the samples stored are
\* the buffer quantized at p.
C22_ScaleFactorMatchesData ==
    (nc_pc = "done" /\ nc_out.ret = "True") =>
        /\ nc_out.calls[1].op = "metadata" /\ nc_out.calls[1].segment = 0
        /\ nc_out.calls[1].units_conversion_factor = Ufact(QuantizedAt)
        /\ ~nc_args.discont_handler =>
              nc_out.calls[2].samples =
                  convert_data_to_int32(nc_args.data_write, QuantizedAt, WriterCast)

-----------------------------------------------------------------------------
(* The cache between write_data calls (Spec) *)

\* the fields of a record of self.channel_info after _reload_session_info
RefreshedFields ==
    {"fsamp", "ufact", "nsamp", "start_time", "end_time", "n_segments", "mef_block_len"}

\* C23: between write_data calls, also after a call that ended with an
\* exception while planning the intervals or dispatching, every record of
\* the cache is a complete record from a refresh of the storage engine: the
\* write logic leaves no record it filled in itself, so after a failed first
\* write to a channel the channel is still unknown to the cache and a retry
\* takes the new-channel path again.
C23_CacheIsRefreshSnapshot ==
    /\ \A ch \in DOMAIN channel_info : DOMAIN channel_info[ch] = RefreshedFields
    /\ (last.ret = "raise" /\ last.new_channel) =>
           last.channel \notin DOMAIN channel_info

=============================================================================
